---- MODULE Spec2Model ----
(***************************************************************************)
(* The game engine that GameBuilder.generate_javascript emits              *)
(* (src/lib/builder.py, the JavaScript between lines 568 and 964): the     *)
(* gameState record, the deck, the draw / apply cycle, the block pulls,    *)
(* the end conditions, localStorage and the part of the page (card         *)
(* display, disabled buttons, alerts) that the handlers read or write.     *)
(***************************************************************************)
EXTENDS Integers, Sequences, FiniteSets, TLC

(* ---------------------------------------------------------------- bounds *)

\* The deck is built from the first NumCards (suit, value) pairs that
\* initializeDeck pushes (the program pushes all 4 x 13 = 52).
NumCards == 4

\* adjustTokens is explored while tokens stay within -MaxDebt .. MaxTokens.
MaxTokens == 3

MaxDebt == 1

\* The whole deck of 52 cards is shuffled along streams of Math.random()
\* values that repeat with this period.
StreamPeriod == 2

\* The danger threshold is explored from 1 to MaxDanger, the critical one
\* from 0 up to below it, with an initial stability of MaxDanger + 1.
MaxDanger == 3

\* The journal takes NumTexts texts besides the empty one, and the browser
\* hands out the timer ids 1..MaxTimers.
NumTexts == 2

MaxTimers == 2

\* Math.random() is taken to return one of 2^RandomBits equally likely
\* values k / 2^RandomBits when a probability is computed.
RandomBits == 6

(* ------------------------------------------------------------- constants *)

\* cardHistory keeps at most this many entries.
HistoryCap == 10

\* Faces of the die scale used by pullBlock (Math.random() * 6 + 1).
DieFaces == 6

suits == <<"spades", "hearts", "diamonds", "clubs">>

values == <<"A", "K", "Q", "J", "10", "9", "8", "7", "6", "5", "4", "3", "2">>

\* JavaScript null for pendingCard and an absent localStorage item: the
\* empty sequence; a present value v is <<v>>.
Null == <<>>

Min(a, b) == IF a < b THEN a ELSE b

(* ------------------------------------------------------------ randomness *)

\* The values of Math.random() explored, as <<numerator, denominator>> in
\* [0, 1): 0, 1/12 and 1/2.
RandomSamples == {<<0, 1>>, <<1, 12>>, <<1, 2>>}

\* Math.floor(Math.random() * n) for the sample r.
FloorTimes(r, n) == (r[1] * n) \div r[2]

\* Variant of the trial that fails on a roll at or above the threshold.
TrialFails_reversed(r, failureThreshold) ==
    r[1] * DieFaces + r[2] >= failureThreshold * r[2]

\* Math.random() * 6 + 1 <= failureThreshold for the sample r.
TrialFails(r, failureThreshold) ==
    r[1] * DieFaces + r[2] <= failureThreshold * r[2]

\* The equally likely values of Math.random() at the resolution RandomBits.
RandomGrid == 2 ^ RandomBits

RandomValues == {<<k, RandomGrid>> : k \in 0..(RandomGrid - 1)}

\* Of the RandomGrid equally likely values of Math.random(), the number for
\* which a trial fails: the failure probability of one trial is
\* FailureCount(failureThreshold) / RandomGrid.
FailureCount(failureThreshold) ==
    Cardinality({r \in RandomValues : TrialFails(r, failureThreshold)})

(* ------------------------------------------------------------------ deck *)

\* The (suit, value) pairs in the order of the nested loops of initializeDeck.
AllCards ==
    [n \in 1..(Len(suits) * Len(values)) |->
        [suit  |-> suits[((n - 1) \div Len(values)) + 1],
         value |-> values[((n - 1) % Len(values)) + 1]]]

OrderedDeck == SubSeq(AllCards, 1, Min(NumCards, Len(AllCards)))

Cards == {OrderedDeck[n] : n \in 1..Len(OrderedDeck)}

\* Variant of Swap that copies deck[j] to deck[i] and loses deck[i].
Swap_overwrite(deck, i, j) == [deck EXCEPT ![i + 1] = deck[j + 1]]

\* [deck[i], deck[j]] = [deck[j], deck[i]] with JavaScript (0-based) indices.
Swap(deck, i, j) ==
    [deck EXCEPT ![i + 1] = deck[j + 1], ![j + 1] = deck[i + 1]]

\* The iterations i, i-1, ..., 1 of the loop of shuffleDeck: every deck the
\* loop can leave, over the values Math.random() returns.
RECURSIVE ShuffleFrom(_, _)
ShuffleFrom(deck, i) ==
    IF i <= 0
    THEN {deck}
    ELSE UNION {ShuffleFrom(Swap(deck, i, FloorTimes(r, i + 1)), i - 1) :
                    r \in RandomSamples}

shuffleDeck(deck) == ShuffleFrom(deck, Len(deck) - 1)

\* The decks initializeDeck can leave in gameState.deck.
initializeDeck == shuffleDeck(OrderedDeck)

\* The identities of the whole deck.
AllCardSet == {AllCards[n] : n \in 1..Len(AllCards)}

\* The streams of Math.random() values explored for the whole deck: every
\* sequence of StreamPeriod samples, repeated.
RandomStreams == [1..StreamPeriod -> RandomSamples]

StreamAt(rs, n) == rs[((n - 1) % Len(rs)) + 1]

\* The loop of shuffleDeck along one stream: iteration i takes the value
\* StreamAt(rs, i) from Math.random().
RECURSIVE ShuffleBy(_, _, _)
ShuffleBy(deck, i, rs) ==
    IF i <= 0
    THEN deck
    ELSE ShuffleBy(Swap(deck, i, FloorTimes(StreamAt(rs, i), i + 1)), i - 1, rs)

\* The decks initializeDeck leaves when all 52 cards are pushed, along the
\* streams explored.
initializeFullDeck ==
    {ShuffleBy(AllCards, Len(AllCards) - 1, rs) : rs \in RandomStreams}

(* ------------------------------------------------------------ card table *)

\* The token deltas the card tables use.
DeltaCycle == <<1, 0, -2>>

\* CARD_DATA[card.suit][card.value] of table k: token delta and block pulls.
CardIndex(card) == CHOOSE n \in 1..Len(AllCards) : AllCards[n] = card

CardTable(k) ==
    [card \in Cards |->
        [tokens |-> DeltaCycle[((CardIndex(card) + k) % 3) + 1],
         blocks |-> (CardIndex(card) + 2 * k) % 3]]

\* The card tables explored.
CardTables == {CardTable(0), CardTable(1)}

\* A card table for the whole deck: one card in four costs a token, the
\* others give one or none, and one card in thirteen pulls a block.
FullCardTable(k) ==
    [card \in AllCardSet |->
        [tokens |-> IF (CardIndex(card) + k) % 4 = 0 THEN -1
                    ELSE (CardIndex(card) + k) % 2,
         blocks |-> IF (CardIndex(card) + k) % 13 = 0 THEN 1 ELSE 0]]

FullCardTables == {FullCardTable(0), FullCardTable(1)}

\* The configurations explored: GAME_CONFIG.mechanics.
Configs ==
    [reshuffle        : BOOLEAN,
     tokensInitial    : {2},
     stabilityInitial : {3},
     danger           : {2},
     critical         : {1}]

\* The configurations explored for the block pulls: every pair of thresholds
\* with danger > critical >= 0, and a stability that starts above both.
RiskConfigs ==
    {c \in [reshuffle        : {FALSE},
            tokensInitial    : {2},
            stabilityInitial : {MaxDanger + 1},
            danger           : 1..MaxDanger,
            critical         : 0..MaxDanger] : c.danger > c.critical}

\* The configurations explored with the whole deck.
FullDeckConfigs == Configs

(* ----------------------------------------------------------------- state *)

VARIABLES
    GAME_CONFIG,      \* the configuration built into the page
    CARD_DATA,        \* the card table built into the page
    gameState,        \* the gameState record
    localStorage,     \* the item 'gameState': Null or <<serialized state>>
    cardResult,       \* what the element 'cardResult' shows
    buttonsDisabled,  \* every button except "New Game" is disabled
    alerts,           \* the dialogs the last handler raised, in order
    endReason,        \* the reason of the last endGame call on this page
    pageLoaded,       \* window.onload has run on this page
    builder,          \* the GameBuilder of a build: its files and its outcome;
                      \* Null once the page is built and open
    journal,          \* the value of the textarea 'journal'
    journalContent,   \* the item 'journalContent': Null or <<saved text>>
    saveTimeout,      \* the variable saveTimeout: Null or <<timer id>>
    timers            \* the timers set by setTimeout that have yet to fire

vars == <<GAME_CONFIG, CARD_DATA, gameState, localStorage, cardResult,
          buttonsDisabled, alerts, endReason, pageLoaded, builder,
          journal, journalContent, saveTimeout, timers>>

\* The journal, its saved copy and the autosave timer.
journalVars == <<journal, journalContent, saveTimeout, timers>>

\* The texts of the journal explored; EmptyText is the empty string.
EmptyText == 0

Texts == EmptyText..NumTexts

\* A page just opened: an empty journal, nothing saved, no timer.
NoJournal ==
    /\ journal = EmptyText
    /\ journalContent = Null
    /\ saveTimeout = Null
    /\ timers = {}

\* localStorage.setItem('journalContent', journal.value).
saveJournalContent(text) == <<text>>

\* loadGameState(): `if (journal)` puts a saved, non-empty text back into
\* the textarea.
loadJournal ==
    IF journalContent # Null /\ journalContent[1] # EmptyText
    THEN journalContent[1]
    ELSE journal

\* The gameState literal of the script.
InitialGameState ==
    [tokens      |-> GAME_CONFIG.tokensInitial,
     stability   |-> GAME_CONFIG.stabilityInitial,
     deck        |-> <<>>,
     drawnCards  |-> <<>>,
     cardHistory |-> <<>>,
     pendingCard |-> Null,
     gameEnded   |-> FALSE]

\* The card display: nothing drawn, a revealed card with its Apply button,
\* or the game-over panel with its message and New Game button.
NoCardDrawn == [view |-> "No card drawn yet", reason |-> "none"]

CardShown == [view |-> "card", reason |-> "none"]

GameOverPanel(reason) == [view |-> "Game Over", reason |-> reason]

(* ----------------------------------------------------------- persistence *)

\* JSON.stringify(gameState): the properties in insertion order, each as a
\* <<key, value>> pair.
JSON_stringify(gs) ==
    << <<"tokens", gs.tokens>>, <<"stability", gs.stability>>,
       <<"deck", gs.deck>>, <<"drawnCards", gs.drawnCards>>,
       <<"cardHistory", gs.cardHistory>>, <<"pendingCard", gs.pendingCard>>,
       <<"gameEnded", gs.gameEnded>> >>

\* Variant of JSON_parse that loses the pending card.
JSON_parse_pendingLost(text) ==
    [tokens      |-> text[1][2],
     stability   |-> text[2][2],
     deck        |-> text[3][2],
     drawnCards  |-> text[4][2],
     cardHistory |-> text[5][2],
     pendingCard |-> Null,
     gameEnded   |-> text[7][2]]

\* JSON.parse of such a text.
JSON_parse(text) ==
    [tokens      |-> text[1][2],
     stability   |-> text[2][2],
     deck        |-> text[3][2],
     drawnCards  |-> text[4][2],
     cardHistory |-> text[5][2],
     pendingCard |-> text[6][2],
     gameEnded   |-> text[7][2]]

\* localStorage.setItem('gameState', JSON.stringify(gameState)).
saveGameState(gs) == <<JSON_stringify(gs)>>

(* ------------------------------------------------------------- the page *)

\* What the handlers read and write, gathered in one record: gameState (gs),
\* the card display, the disabled buttons and the reason endGame was given.
Page ==
    [gs              |-> gameState,
     cardResult      |-> cardResult,
     buttonsDisabled |-> buttonsDisabled,
     endReason       |-> endReason,
     calls           |-> <<>>]

\* The record `calls` keeps of what a handler has done so far, in order: a
\* token change ("tokens"), a call of pullBlock with the failure threshold it
\* chose (0 when it returned at once) and the blocks it lost, a call of
\* endGame with its reason; each with the tokens and the stability it found.
Call(p, op, threshold, lost, reason) ==
    [op        |-> op,
     tokens    |-> p.gs.tokens,
     stability |-> p.gs.stability,
     threshold |-> threshold,
     lost      |-> lost,
     reason    |-> reason]

Called(p, call) == [p EXCEPT !.calls = Append(@, call)]

\* Variant of endGame that leaves the buttons enabled.
endGame_buttonsLeftEnabled(p, reason) ==
    [p EXCEPT !.gs.gameEnded = TRUE,
              !.cardResult = GameOverPanel(reason),
              !.endReason = reason]

\* endGame(reason): sets gameEnded, shows the game-over panel and disables
\* every button that is not a New Game button.
endGame(p, reason) ==
    [Called(p, Call(p, "endGame", 0, 0, reason))
        EXCEPT !.gs.gameEnded = TRUE,
               !.cardResult = GameOverPanel(reason),
               !.endReason = reason,
               !.buttonsDisabled = TRUE]

\* Variant of the banding that tests the danger threshold first.
failureThreshold_dangerFirst(stability) ==
    IF stability <= GAME_CONFIG.danger THEN 2
    ELSE IF stability <= GAME_CONFIG.critical THEN 3
    ELSE 1

\* The banding of pullBlock.
failureThreshold(stability) ==
    IF stability <= GAME_CONFIG.critical THEN 3
    ELSE IF stability <= GAME_CONFIG.danger THEN 2
    ELSE 1

\* Variant of the dice pool that rolls once, whatever the stability.
LostCounts_oneTrial(stability) ==
    {Cardinality({i \in 1..1 :
                      TrialFails(rolls[i], failureThreshold(stability))}) :
         rolls \in [1..1 -> RandomSamples]}

\* The values of `lost` the dice-pool loop can end with: one trial per block.
LostCounts(stability) ==
    {Cardinality({i \in 1..stability :
                      TrialFails(rolls[i], failureThreshold(stability))}) :
         rolls \in [1..stability -> RandomSamples]}

\* pullBlock(): the pages it can leave.
pullBlock(p) ==
    IF p.gs.stability <= 0
    THEN {Called(p, Call(p, "pullBlock", 0, 0, "none"))}
    ELSE {LET after == p.gs.stability - lost
              floored == IF after < 0 THEN 0 ELSE after
              call == Call(p, "pullBlock", failureThreshold(p.gs.stability),
                           lost, "none")
              q == [Called(p, call) EXCEPT !.gs.stability = floored]
          IN  IF floored = 0 THEN endGame(q, "stability") ELSE q :
              lost \in LostCounts(p.gs.stability)}

\* Variant of the loop that pulls once, however many blocks the card asks.
pullBlocks_once(p, blocks) ==
    IF blocks <= 0
    THEN {p}
    ELSE pullBlock(p)

\* for (i = 0; i < blocks; i++) pullBlock();
RECURSIVE pullBlocks(_, _)
pullBlocks(p, blocks) ==
    IF blocks <= 0
    THEN {p}
    ELSE UNION {pullBlocks(q, blocks - 1) : q \in pullBlock(p)}

\* Variant of checkGameEnd that tests the tokens before the stability.
checkGameEnd_tokensFirst(p) ==
    IF p.gs.tokens <= 0 THEN endGame(p, "tokens")
    ELSE IF p.gs.stability <= 0 THEN endGame(p, "stability")
    ELSE IF Len(p.gs.deck) = 0 /\ p.gs.tokens > 0 /\ p.gs.stability > 0
         THEN endGame(p, "win")
         ELSE p

\* Variant of checkGameEnd that declares the win one card early.
checkGameEnd_winUnchecked(p) ==
    IF p.gs.stability <= 0 THEN endGame(p, "stability")
    ELSE IF p.gs.tokens <= 0 THEN endGame(p, "tokens")
    ELSE IF Len(p.gs.deck) <= 1
         THEN endGame(p, "win")
         ELSE p

\* Variant of checkGameEnd that never declares the win.
checkGameEnd_winForgotten(p) ==
    IF p.gs.stability <= 0 THEN endGame(p, "stability")
    ELSE IF p.gs.tokens <= 0 THEN endGame(p, "tokens")
    ELSE p

\* checkGameEnd(): stability first, then tokens, then the win.
checkGameEnd(p) ==
    LET c == Called(p, Call(p, "checkGameEnd", 0, 0, "none"))
    IN  IF c.gs.stability <= 0 THEN endGame(c, "stability")
        ELSE IF c.gs.tokens <= 0 THEN endGame(c, "tokens")
        ELSE IF Len(c.gs.deck) = 0 /\ c.gs.tokens > 0 /\ c.gs.stability > 0
             THEN endGame(c, "win")
             ELSE c

\* Variant of applyCardEffects that books the token change on the stability
\* as well.
applyCardEffects_stabilityPaid(p, cardData) ==
    LET paid == IF cardData.tokens # 0
                THEN [p EXCEPT !.gs.tokens = @ + cardData.tokens,
                               !.gs.stability = @ + cardData.tokens]
                ELSE p
        pulled == IF cardData.blocks > 0
                  THEN pullBlocks(paid, cardData.blocks)
                  ELSE {paid}
    IN  {checkGameEnd(q) : q \in pulled}

\* Variant of applyCardEffects that pulls the blocks before it books the
\* token change.
applyCardEffects_pullsFirst(p, cardData) ==
    LET pulled == IF cardData.blocks > 0
                  THEN pullBlocks(p, cardData.blocks)
                  ELSE {p}
        paid(q) == IF cardData.tokens # 0
                   THEN Called([q EXCEPT !.gs.tokens = @ + cardData.tokens],
                               Call(q, "tokens", 0, 0, "none"))
                   ELSE q
    IN  {checkGameEnd(paid(q)) : q \in pulled}

\* applyCardEffects(cardData): token change, block pulls, end check.
applyCardEffects(p, cardData) ==
    LET paid == IF cardData.tokens # 0
                THEN Called([p EXCEPT !.gs.tokens = @ + cardData.tokens],
                            Call(p, "tokens", 0, 0, "none"))
                ELSE p
        pulled == IF cardData.blocks > 0
                  THEN pullBlocks(paid, cardData.blocks)
                  ELSE {paid}
    IN  {checkGameEnd(q) : q \in pulled}

\* Variant of unshiftHistory that evicts the entry next to the newest.
unshiftHistory_secondEvicted(history, entry) ==
    LET longer == <<entry>> \o history
    IN  IF Len(longer) > HistoryCap
        THEN <<entry>> \o SubSeq(longer, 3, Len(longer))
        ELSE longer

\* cardHistory.unshift(entry), then pop() when longer than 10.
unshiftHistory(history, entry) ==
    LET longer == <<entry>> \o history
    IN  IF Len(longer) > HistoryCap
        THEN SubSeq(longer, 1, Len(longer) - 1)
        ELSE longer

(* --------------------------------------------------------------- alerts *)

\* The alerts of the three refusals and the notice of the reshuffle.
EmptyDeck == "Deck is empty!"

DrawWhilePending ==
    "Please apply the current card effects before drawing another card."

NoPendingCard == "No card to apply."

Reshuffling == "Deck empty! Reshuffling..."

\* The question of newGame, kept when the player answers yes.
NewGameConfirm == "Start a new game? This will erase all progress."

(* -------------------------------------------------------------- actions *)

\* The amounts the token buttons pass to adjustTokens.
AdjustAmounts == {-1, 1}

Init ==
    /\ GAME_CONFIG \in Configs
    /\ CARD_DATA \in CardTables
    /\ gameState = InitialGameState
    /\ localStorage = Null
    /\ cardResult = NoCardDrawn
    /\ buttonsDisabled = FALSE
    /\ alerts = <<>>
    /\ endReason = "none"
    /\ pageLoaded = FALSE
    /\ builder = Null
    /\ NoJournal

\* Variant of window.onload that deals the fresh deck into the loaded game.
loadPage_freshDeckKept(decks) ==
    /\ ~pageLoaded
    /\ pageLoaded' = TRUE
    /\ \E deck \in decks :
          IF localStorage # Null
          THEN /\ gameState' = [JSON_parse(localStorage[1]) EXCEPT !.deck = deck]
               /\ cardResult' = IF gameState'.pendingCard # Null
                                THEN CardShown
                                ELSE cardResult
               /\ buttonsDisabled' = (buttonsDisabled \/ gameState'.gameEnded)
          ELSE /\ gameState' = [gameState EXCEPT !.deck = deck]
               /\ UNCHANGED <<cardResult, buttonsDisabled>>
    /\ journal' = loadJournal
    /\ UNCHANGED <<builder, GAME_CONFIG, CARD_DATA, localStorage, alerts, endReason,
                   journalContent, saveTimeout, timers>>

\* window.onload: initializeDeck(), then loadGameState(), which replaces
\* gameState by the saved one when there is one, shows its pending card and
\* disables the buttons of an ended game.
\* decks: the decks the call of initializeDeck can leave.
loadPage(decks) ==
    /\ ~pageLoaded
    /\ pageLoaded' = TRUE
    /\ IF localStorage # Null
       THEN /\ gameState' = JSON_parse(localStorage[1])
            /\ cardResult' = IF gameState'.pendingCard # Null
                             THEN CardShown
                             ELSE cardResult
            /\ buttonsDisabled' = (buttonsDisabled \/ gameState'.gameEnded)
       ELSE /\ \E deck \in decks :
                  gameState' = [gameState EXCEPT !.deck = deck]
            /\ UNCHANGED <<cardResult, buttonsDisabled>>
    /\ journal' = loadJournal
    /\ UNCHANGED <<builder, GAME_CONFIG, CARD_DATA, localStorage, alerts, endReason,
                   journalContent, saveTimeout, timers>>

windowOnload == loadPage(initializeDeck)

\* window.onload of a page whose deck has all 52 cards.
windowOnloadFullDeck == loadPage(initializeFullDeck)

\* The handlers are the onclick handlers of buttons of the page: a click
\* reaches its handler once the page is loaded and while the buttons are not
\* disabled.
ClickReachesHandler == pageLoaded /\ ~buttonsDisabled

\* Variant of drawCard's first test that lets the empty deck through.
DeckEmptyBlocksDraw_never(gs) == FALSE

\* Variant of drawCard's first test that refuses every draw from an empty
\* deck, reshuffle or not.
DeckEmptyBlocksDraw_always(gs) == Len(gs.deck) = 0

\* The first test of drawCard: an empty deck that is not to be reshuffled.
DeckEmptyBlocksDraw(gs) == Len(gs.deck) = 0 /\ ~GAME_CONFIG.reshuffle

\* Variant of drawCard's second test that lets a draw replace a pending card.
PendingBlocksDraw_never(gs) == FALSE

\* The second test of drawCard: a card is pending.
PendingBlocksDraw(gs) == gs.pendingCard # Null

\* The reshuffle of an exhausted deck is explored while fewer than NumCards
\* cards have been applied, that is once per game.
FirstPassOfDeck == Len(gameState.cardHistory) < NumCards

\* Variant of pop that takes the first card of the deck, as shift() does.
pop_shift(deck) ==
    [card |-> deck[1], deck |-> SubSeq(deck, 2, Len(deck))]

\* Variant of pop that reads the last card and leaves it in the deck.
pop_peek(deck) ==
    [card |-> deck[Len(deck)], deck |-> deck]

\* deck.pop(): the last card of the deck, and the deck without it.
pop(deck) ==
    [card |-> deck[Len(deck)], deck |-> SubSeq(deck, 1, Len(deck) - 1)]

\* drawCard(); decks: the decks its call of initializeDeck can leave.
drawCardFrom(decks) ==
    /\ (Len(gameState.deck) = 0 /\ GAME_CONFIG.reshuffle)
           => FirstPassOfDeck
    /\ IF DeckEmptyBlocksDraw(gameState)
       THEN /\ alerts' = <<EmptyDeck>>
            /\ UNCHANGED <<gameState, localStorage, journalContent, cardResult>>
       ELSE LET refill == Len(gameState.deck) = 0 /\ GAME_CONFIG.reshuffle
                notice == IF refill
                          THEN <<Reshuffling>>
                          ELSE <<>>
            IN  \E deck \in (IF refill THEN decks
                                      ELSE {gameState.deck}) :
                      IF PendingBlocksDraw(gameState)
                      THEN /\ alerts' = notice \o <<DrawWhilePending>>
                           /\ gameState' = [gameState EXCEPT !.deck = deck]
                           /\ UNCHANGED <<localStorage, journalContent, cardResult>>
                      ELSE LET card == pop(deck).card
                               cardData == CARD_DATA[card]
                           IN  /\ alerts' = notice
                               /\ gameState' =
                                      [gameState EXCEPT
                                          !.deck = pop(deck).deck,
                                          !.pendingCard =
                                              <<[card |-> card, cardData |-> cardData]>>]
                               /\ cardResult' = CardShown
                               /\ localStorage' = saveGameState(gameState')
                               /\ journalContent' = saveJournalContent(journal)
    /\ UNCHANGED <<builder, GAME_CONFIG, CARD_DATA, buttonsDisabled, endReason, pageLoaded,
                   journal, saveTimeout, timers>>

\* drawCard(), called by a click on an enabled button.
drawCard == ClickReachesHandler /\ drawCardFrom(initializeDeck)

\* drawCard() on a page whose deck has all 52 cards.
drawCardFullDeck == ClickReachesHandler /\ drawCardFrom(initializeFullDeck)

\* The script has run and the buttons are shown, but the load event has not
\* come yet (it waits for every resource of the page): a click on Draw calls
\* drawCard() on the gameState literal, whose deck is empty.
ClickBeforeOnload == ~pageLoaded /\ ~buttonsDisabled

drawCardBeforeOnload == ClickBeforeOnload /\ drawCardFrom(initializeFullDeck)

\* Variant of the early return of applyCurrentCard that has already written
\* a history entry for the missing card.
rejectApply_partial(p) ==
    [p EXCEPT !.gs.cardHistory =
        unshiftHistory(@, [suit |-> "undefined", value |-> "undefined",
                           tokens |-> 0, blocks |-> 0])]

\* The early return of applyCurrentCard: the page is left as it is.
rejectApply(p) == p

\* Variant of the end of applyCurrentCard that leaves the card pending.
clearPending_kept(gs) == gs

\* gameState.pendingCard = null.
clearPending(gs) == [gs EXCEPT !.pendingCard = Null]

\* applyCurrentCard(), called by a click on an enabled button.
applyCurrentCard ==
    /\ ClickReachesHandler
    /\ IF gameState.pendingCard = Null
       THEN /\ alerts' = <<NoPendingCard>>
            /\ gameState' = rejectApply(Page).gs
            /\ UNCHANGED <<localStorage, journalContent, cardResult, buttonsDisabled,
                           endReason>>
       ELSE LET card == gameState.pendingCard[1].card
                cardData == gameState.pendingCard[1].cardData
                entry == [suit |-> card.suit, value |-> card.value,
                          tokens |-> cardData.tokens, blocks |-> cardData.blocks]
                noted == [Page EXCEPT !.gs.cardHistory = unshiftHistory(@, entry)]
            IN  \E q \in applyCardEffects(noted, cardData) :
                   /\ gameState' = clearPending(q.gs)
                   /\ cardResult' = NoCardDrawn
                   /\ buttonsDisabled' = q.buttonsDisabled
                   /\ endReason' = q.endReason
                   /\ localStorage' = saveGameState(gameState')
                   /\ journalContent' = saveJournalContent(journal)
                   /\ alerts' = <<>>
    /\ UNCHANGED <<builder, GAME_CONFIG, CARD_DATA, pageLoaded, journal, saveTimeout,
                   timers>>

\* Variant of addTokens that also takes the pending card for resolved.
addTokens_pendingCleared(gs, amount) ==
    [gs EXCEPT !.tokens = @ + amount, !.pendingCard = Null]

\* Variant of addTokens that reopens an ended game once tokens are back.
addTokens_revived(gs, amount) ==
    [gs EXCEPT !.tokens = @ + amount,
               !.gameEnded = @ /\ gs.tokens + amount <= 0]

\* gameState.tokens += amount.
addTokens(gs, amount) == [gs EXCEPT !.tokens = @ + amount]

\* adjustTokens(amount), called by a click on an enabled button.
adjustTokens ==
    /\ ClickReachesHandler
    /\ \E amount \in AdjustAmounts :
          /\ gameState.tokens + amount \in (0 - MaxDebt)..MaxTokens
          /\ gameState' = addTokens(gameState, amount)
    /\ localStorage' = saveGameState(gameState')
    /\ journalContent' = saveJournalContent(journal)
    /\ alerts' = <<>>
    /\ UNCHANGED <<builder, GAME_CONFIG, CARD_DATA, cardResult, buttonsDisabled,
                   endReason, pageLoaded, journal, saveTimeout, timers>>

\* location.reload(), or the player reopening the page: the script runs
\* again from its first line; localStorage survives.
reloadPage ==
    /\ pageLoaded
    /\ pageLoaded' = FALSE
    /\ gameState' = InitialGameState
    /\ cardResult' = NoCardDrawn
    /\ buttonsDisabled' = FALSE
    /\ alerts' = <<>>
    /\ endReason' = "none"
    /\ journal' = EmptyText
    /\ saveTimeout' = Null
    /\ timers' = {}
    /\ UNCHANGED <<builder, GAME_CONFIG, CARD_DATA, localStorage, journalContent>>

\* Variant of localStorage.clear() that keeps the saved game.
localStorage_kept == localStorage

\* localStorage.clear().
localStorage_clear == Null

\* newGame(): after the player confirms, localStorage.clear() and
\* location.reload(); a declined confirmation does nothing.
newGame ==
    /\ pageLoaded
    /\ \E confirmed \in BOOLEAN :
          IF confirmed
          THEN /\ localStorage' = localStorage_clear
               /\ pageLoaded' = FALSE
               /\ gameState' = InitialGameState
               /\ cardResult' = NoCardDrawn
               /\ buttonsDisabled' = FALSE
               /\ alerts' = <<NewGameConfirm>>
               /\ endReason' = "none"
               /\ journalContent' = Null
               /\ journal' = EmptyText
               /\ saveTimeout' = Null
               /\ timers' = {}
          ELSE UNCHANGED <<localStorage, pageLoaded, gameState, cardResult,
                           buttonsDisabled, alerts, endReason, journalVars>>
    /\ UNCHANGED <<builder, GAME_CONFIG, CARD_DATA>>

Next ==
    \/ windowOnload
    \/ drawCard
    \/ applyCurrentCard
    \/ adjustTokens
    \/ reloadPage
    \/ newGame

Spec == Init /\ [][Next]_vars

\* Games with the whole deck of 52 cards: the page is loaded, cards are
\* drawn (also before the load event) and confirmed, the page is reloaded, a
\* new game is started.
FullDeckInit ==
    /\ GAME_CONFIG \in FullDeckConfigs
    /\ CARD_DATA \in FullCardTables
    /\ gameState = InitialGameState
    /\ localStorage = Null
    /\ cardResult = NoCardDrawn
    /\ buttonsDisabled = FALSE
    /\ alerts = <<>>
    /\ endReason = "none"
    /\ pageLoaded = FALSE
    /\ builder = Null
    /\ NoJournal

FullDeckNext ==
    \/ windowOnloadFullDeck
    \/ drawCardBeforeOnload
    \/ drawCardFullDeck
    \/ applyCurrentCard
    \/ reloadPage
    \/ newGame

FullDeckSpec == FullDeckInit /\ [][FullDeckNext]_vars

\* Games under every pair of thresholds: the page is loaded, cards are drawn
\* and confirmed, blocks are pulled.
RiskInit ==
    /\ GAME_CONFIG \in RiskConfigs
    /\ CARD_DATA \in CardTables
    /\ gameState = InitialGameState
    /\ localStorage = Null
    /\ cardResult = NoCardDrawn
    /\ buttonsDisabled = FALSE
    /\ alerts = <<>>
    /\ endReason = "none"
    /\ pageLoaded = FALSE
    /\ builder = Null
    /\ NoJournal

RiskNext ==
    \/ windowOnload
    \/ drawCard
    \/ applyCurrentCard

RiskSpec == RiskInit /\ [][RiskNext]_vars

(* ---------------------------------------------------------- the journal *)

\* Variant of clearTimeout that cancels nothing.
clearTimeout_ignored(ids, id) == ids

\* clearTimeout(id): the timer of that id, if it has yet to fire, is
\* cancelled; an undefined or spent id cancels nothing.
clearTimeout(ids, id) == ids \ {id[i] : i \in 1..Len(id)}

\* The id setTimeout returns: one that no timer yet to fire has.
NewTimerId(ids) ==
    CHOOSE id \in 1..MaxTimers :
        id \notin ids /\ \A other \in (1..MaxTimers) \ ids : id <= other

\* autoSaveJournal(): clearTimeout(saveTimeout), then
\* saveTimeout = setTimeout(() => saveGameState(), 1000).
autoSaveJournal ==
    LET kept == clearTimeout(timers, saveTimeout)
    IN  /\ Cardinality(kept) < MaxTimers
        /\ saveTimeout' = <<NewTimerId(kept)>>
        /\ timers' = kept \cup {NewTimerId(kept)}

\* An 'input' event of the journal, whose listener window.onload has added:
\* the text changes and autoSaveJournal runs.
journalInput ==
    /\ pageLoaded
    /\ \E text \in Texts \ {journal} : journal' = text
    /\ autoSaveJournal
    /\ UNCHANGED <<builder, GAME_CONFIG, CARD_DATA, gameState, localStorage,
                   journalContent, cardResult, buttonsDisabled, alerts, endReason,
                   pageLoaded>>

\* A timer set by autoSaveJournal fires: saveGameState().
saveTimeoutFires ==
    /\ \E id \in timers : timers' = timers \ {id}
    /\ localStorage' = saveGameState(gameState)
    /\ journalContent' = saveJournalContent(journal)
    /\ UNCHANGED <<builder, GAME_CONFIG, CARD_DATA, gameState, journal, saveTimeout,
                   cardResult, buttonsDisabled, alerts, endReason, pageLoaded>>

\* A game with its journal, on a page that does not reshuffle.
JournalInit ==
    /\ GAME_CONFIG \in {c \in Configs : ~c.reshuffle}
    /\ CARD_DATA = CardTable(0)
    /\ gameState = InitialGameState
    /\ localStorage = Null
    /\ cardResult = NoCardDrawn
    /\ buttonsDisabled = FALSE
    /\ alerts = <<>>
    /\ endReason = "none"
    /\ pageLoaded = FALSE
    /\ builder = Null
    /\ NoJournal

JournalNext ==
    \/ windowOnload
    \/ journalInput
    \/ saveTimeoutFires
    \/ drawCard
    \/ applyCurrentCard
    \/ adjustTokens
    \/ reloadPage
    \/ newGame

JournalSpec == JournalInit /\ [][JournalNext]_vars

(* ------------------------------------------------------------ the build *)

\* A card of cards.yaml as validate sees it: whether it is a mapping, and the
\* keys it has.
CardFields == {"title", "description", "tokens", "blocks"}

CompleteCard == [isDict |-> TRUE, fields |-> CardFields]

\* cards.yaml with the 52 cards: suit -> value -> card.
CompleteCatalog ==
    [suit \in {suits[i] : i \in 1..Len(suits)} |->
        [value \in {values[i] : i \in 1..Len(values)} |-> CompleteCard]]

\* The catalog without the card `value` of `suit`.
WithoutCard(cards, suit, value) ==
    [cards EXCEPT ![suit] = [v \in (DOMAIN cards[suit]) \ {value} |-> cards[suit][v]]]

WithoutSuit(cards, suit) == [s \in (DOMAIN cards) \ {suit} |-> cards[s]]

\* The catalogs explored: the complete one, the empty file, and the complete
\* one with one defect: a suit missing, a card missing, a card that is no
\* mapping, a card without one of its keys.
Catalogs ==
    {CompleteCatalog, <<>>}
    \cup {WithoutSuit(CompleteCatalog, c.suit) : c \in AllCardSet}
    \cup {WithoutCard(CompleteCatalog, c.suit, c.value) : c \in AllCardSet}
    \cup {[CompleteCatalog EXCEPT ![c.suit][c.value].isDict = FALSE] :
              c \in AllCardSet}
    \cup {[CompleteCatalog EXCEPT ![c.suit][c.value].fields = @ \ {f}] :
              c \in AllCardSet, f \in CardFields}

\* config.yaml as validate sees it: its top-level keys and the keys of `game`.
CompleteConfig ==
    [keys |-> {"game", "mechanics", "conditions", "ui"},
     game |-> {"title", "author"}]

EmptyFile == [keys |-> {}, game |-> {}]

BuilderConfigs ==
    {CompleteConfig, EmptyFile,
     [CompleteConfig EXCEPT !.keys = @ \ {"ui"}],
     [CompleteConfig EXCEPT !.game = @ \ {"author"}]}

\* The errors of one card: the required keys it lacks.
RECURSIVE MissingFields(_, _, _, _)
MissingFields(card, suit, value, required) ==
    IF required = <<>>
    THEN <<>>
    ELSE (IF Head(required) \notin card.fields
          THEN << <<"Card missing required field", value, suit, Head(required)>> >>
          ELSE <<>>)
         \o MissingFields(card, suit, value, Tail(required))

required_card_fields == <<"title", "description">>

\* for value in values: ...
RECURSIVE ValueErrors(_, _, _)
ValueErrors(cards, suit, vals) ==
    IF vals = <<>>
    THEN <<>>
    ELSE (IF Head(vals) \notin DOMAIN cards[suit]
          THEN << <<"Missing card", Head(vals), suit>> >>
          ELSE IF ~cards[suit][Head(vals)].isDict
               THEN << <<"Invalid card data", Head(vals), suit>> >>
               ELSE MissingFields(cards[suit][Head(vals)], suit, Head(vals),
                                  required_card_fields))
         \o ValueErrors(cards, suit, Tail(vals))

\* for suit in suits: ...
RECURSIVE SuitErrors(_, _)
SuitErrors(cards, ss) ==
    IF ss = <<>>
    THEN <<>>
    ELSE (IF Head(ss) \notin DOMAIN cards
          THEN << <<"Missing suit", Head(ss)>> >>
          ELSE ValueErrors(cards, Head(ss), values))
         \o SuitErrors(cards, Tail(ss))

RECURSIVE MissingKeys(_, _, _)
MissingKeys(present, required, message) ==
    IF required = <<>>
    THEN <<>>
    ELSE (IF Head(required) \notin present
          THEN << <<message, Head(required)>> >>
          ELSE <<>>)
         \o MissingKeys(present, Tail(required), message)

\* GameBuilder.validate(): the list of error messages.
validate(config, cards, themeLoaded) ==
    (IF config.keys = {} THEN << <<"Config file not loaded">> >> ELSE <<>>)
    \o (IF cards = <<>> THEN << <<"Cards file not loaded">> >> ELSE <<>>)
    \o (IF ~themeLoaded THEN << <<"Theme file not loaded">> >> ELSE <<>>)
    \o (IF cards # <<>> THEN SuitErrors(cards, suits) ELSE <<>>)
    \o (IF config.keys # {}
        THEN MissingKeys(config.keys, <<"game", "mechanics", "conditions", "ui">>,
                         "Missing required config field")
             \o (IF "game" \in config.keys
                 THEN MissingKeys(config.game, <<"title", "author">>,
                                  "Missing required game field")
                 ELSE <<>>)
        ELSE <<>>)

\* A GameBuilder whose files are read and that has built nothing yet.
NewBuilder(config, cards, themeLoaded) ==
    [config  |-> config,
     cards   |-> cards,
     theme   |-> themeLoaded,
     stage   |-> "new",
     errors  |-> <<>>,
     raised  |-> "none",
     written |-> FALSE]

\* The builds explored: every catalog with the complete configuration, and
\* the complete catalog with every configuration and theme.
Builders ==
    {NewBuilder(CompleteConfig, cards, TRUE) : cards \in Catalogs}
    \cup {NewBuilder(config, CompleteCatalog, theme) :
              config \in BuilderConfigs, theme \in BOOLEAN}

\* The validate command of the command line: validate() and its report.
validateCommand ==
    /\ builder # Null
    /\ builder.stage = "new"
    /\ builder' = [builder EXCEPT
                      !.stage = "validated",
                      !.errors = validate(builder.config, builder.cards,
                                          builder.theme)]
    /\ UNCHANGED <<GAME_CONFIG, CARD_DATA, gameState, localStorage, cardResult,
                   buttonsDisabled, alerts, endReason, pageLoaded, journalVars>>

\* GameBuilder.build(): ValidationError when validate() reports errors;
\* otherwise the page is rendered and written, or BuildError is raised when
\* the templates directory is not found.
build ==
    /\ builder # Null
    /\ builder.stage \in {"new", "validated"}
    /\ LET errors == validate(builder.config, builder.cards, builder.theme)
       IN  IF errors # <<>>
           THEN builder' = [builder EXCEPT !.stage = "done",
                                           !.errors = errors,
                                           !.raised = "ValidationError"]
           ELSE \E templatesFound \in BOOLEAN :
                   builder' = [builder EXCEPT
                                  !.stage = "done",
                                  !.errors = errors,
                                  !.raised = IF templatesFound THEN "none"
                                             ELSE "BuildError",
                                  !.written = templatesFound]
    /\ UNCHANGED <<GAME_CONFIG, CARD_DATA, gameState, localStorage, cardResult,
                   buttonsDisabled, alerts, endReason, pageLoaded, journalVars>>

\* The builds: the page of the build is not open.
BuildInit ==
    /\ builder \in Builders
    /\ GAME_CONFIG = CHOOSE c \in Configs : ~c.reshuffle
    /\ CARD_DATA = CardTable(0)
    /\ gameState = InitialGameState
    /\ localStorage = Null
    /\ cardResult = NoCardDrawn
    /\ buttonsDisabled = FALSE
    /\ alerts = <<>>
    /\ endReason = "none"
    /\ pageLoaded = FALSE
    /\ NoJournal

BuildNext ==
    \/ validateCommand
    \/ build

BuildSpec == BuildInit /\ [][BuildNext]_vars

(* --------------------------------------------------------------- claims *)

\* What a refused action must leave alone: the deck, the ledger, the history,
\* the pending card and the ended flag (gameState), the saved state, the card
\* display, the reported end reason and the disabled buttons.
EngineUnchanged ==
    UNCHANGED <<gameState, localStorage, cardResult, endReason, buttonsDisabled>>

\* C1: in every state reached by draws, confirms and manual token
\* adjustments, tokens >= 0 and stability >= 0.
C1_ResourceFloor ==
    pageLoaded => (gameState.tokens >= 0 /\ gameState.stability >= 0)

\* C2: once the game has ended, no step changes the deck, the ledger, the
\* history or the pending card, in memory or in the saved state, except a new
\* game; a reload of the page restores the ended game from the saved state,
\* which always equals the ended game.
C2_TerminalAbsorbing ==
    /\ [][gameState.gameEnded =>
             \/ UNCHANGED <<gameState, localStorage>>
             \/ newGame
             \/ reloadPage]_vars
    /\ [](gameState.gameEnded =>
             /\ localStorage = saveGameState(gameState)
             /\ JSON_parse(localStorage[1]) = gameState)

\* C2 witness: an ended game that was reloaded from the saved state (the end
\* reason of the earlier page is gone) and is still ended.
C2_Witness ==
    /\ pageLoaded
    /\ gameState.gameEnded
    /\ endReason = "none"
    /\ buttonsDisabled

\* C3: a draw requested while a card is pending ends with the
\* DrawWhilePending alert, and never with the EmptyDeck alert.
C3_DrawWhilePendingError ==
    [][(gameState.pendingCard # Null /\ drawCard) =>
           /\ alerts' # <<>>
           /\ alerts'[Len(alerts')] = DrawWhilePending
           /\ \A i \in 1..Len(alerts') : alerts'[i] # EmptyDeck]_vars

\* C4: a draw requested while a card is pending changes nothing of the
\* engine state.
C4_RejectedDrawNoChange ==
    [][(gameState.pendingCard # Null /\ drawCard) => EngineUnchanged]_vars

\* A draw that was not refused raised no blocking alert.
DrawSucceeded ==
    /\ drawCard \/ drawCardFullDeck
    /\ \A i \in 1..Len(alerts') : alerts'[i] \notin {EmptyDeck, DrawWhilePending}

\* C5: within a session (from window.onload to the next reload or new game)
\* there is at most one pending card, a draw never replaces a pending card,
\* and the pending card changes only from unset to set by a successful draw
\* and from set to unset by a confirm.
C5_OneCardInFlight ==
    [][(pageLoaded /\ pageLoaded') =>
           /\ Len(gameState'.pendingCard) <= 1
           /\ (gameState.pendingCard # Null /\ drawCard)
                  => gameState'.pendingCard = gameState.pendingCard
           /\ gameState'.pendingCard # gameState.pendingCard
                  => \/ /\ gameState.pendingCard = Null
                        /\ DrawSucceeded
                     \/ /\ gameState'.pendingCard = Null
                        /\ applyCurrentCard]_vars

\* C5 witness: a draw was refused while a card was pending, and the card is
\* still pending.
C5_Witness ==
    /\ pageLoaded
    /\ gameState.pendingCard # Null
    /\ alerts # <<>>
    /\ alerts[Len(alerts)] = DrawWhilePending

\* C6: a confirm requested while no card is pending raises the NoPendingCard
\* alert and changes nothing of the engine state.
C6_ConfirmInIdle ==
    [][(gameState.pendingCard = Null /\ applyCurrentCard) =>
           /\ alerts' = <<NoPendingCard>>
           /\ EngineUnchanged]_vars

\* C6 witness: the confirm was refused in Idle.
C6_Witness ==
    /\ pageLoaded
    /\ gameState.pendingCard = Null
    /\ alerts = <<NoPendingCard>>

\* C7: a draw requested with an empty deck while reshuffle-on-empty is
\* disabled raises the EmptyDeck alert and changes nothing of the engine
\* state.
C7_EmptyDeckDraw ==
    [][(Len(gameState.deck) = 0 /\ ~GAME_CONFIG.reshuffle /\ drawCard) =>
           /\ alerts' = <<EmptyDeck>>
           /\ EngineUnchanged]_vars

\* C7 witness: the draw was refused on the empty deck.
C7_Witness ==
    /\ pageLoaded
    /\ ~GAME_CONFIG.reshuffle
    /\ Len(gameState.deck) = 0
    /\ alerts = <<EmptyDeck>>

\* A confirm of the pending card.
Confirm == gameState.pendingCard # Null /\ applyCurrentCard

\* C8: a confirm that leaves stability <= 0 ends the game with the stability
\* loss, whatever the tokens; the token loss is reported only with
\* stability > 0.
C8_StabilityLossFirst ==
    /\ [][(gameState'.stability <= 0 /\ Confirm) =>
              /\ gameState'.gameEnded
              /\ endReason' = "stability"]_vars
    /\ [](endReason = "tokens" =>
              /\ gameState.stability > 0
              /\ gameState.tokens <= 0)

\* C8 witness: a confirm left both stability and tokens at or below 0 and the
\* stability loss is reported.
C8_Witness ==
    /\ pageLoaded
    /\ gameState.stability <= 0
    /\ gameState.tokens <= 0
    /\ endReason = "stability"

\* The card identities of the history.
HistoryCards ==
    {[suit |-> gameState.cardHistory[i].suit,
      value |-> gameState.cardHistory[i].value] :
         i \in 1..Len(gameState.cardHistory)}

\* C9: a confirm after which the deck is empty and tokens and stability are
\* positive declares the win, so the confirm of the last card of a fresh deck
\* (without reshuffle, the cards of the deck, the pending card and the history
\* are the whole deck) wins the game; and the win is declared only by a
\* confirm, with the deck empty, tokens > 0 and stability > 0.
C9_WinByDeckExhaustion ==
    /\ [][(Len(gameState'.deck) = 0 /\ gameState'.tokens > 0
                   /\ gameState'.stability > 0 /\ Confirm) =>
              /\ gameState'.gameEnded
              /\ endReason' = "win"]_vars
    /\ [][(endReason' = "win" /\ endReason # "win") => Confirm]_vars
    /\ [](endReason = "win" =>
              /\ gameState.gameEnded
              /\ Len(gameState.deck) = 0
              /\ gameState.tokens > 0
              /\ gameState.stability > 0)
    /\ []((pageLoaded /\ ~GAME_CONFIG.reshuffle) =>
              Len(gameState.deck) + Len(gameState.pendingCard)
                  + Len(gameState.cardHistory) = NumCards)

\* C9 witness: every card of the deck was drawn and confirmed, once each, and
\* the game is won.
C9_Witness ==
    /\ pageLoaded
    /\ endReason = "win"
    /\ Len(gameState.cardHistory) = NumCards
    /\ HistoryCards = Cards

\* C10: whenever tokens are at or below 0 after an action, the game has
\* ended.
C10_TokensZeroEndsGame ==
    (pageLoaded /\ gameState.tokens <= 0) => gameState.gameEnded

\* A sequence holds every identity of `cards` once and nothing else.
IsDeckOf(deck, cards) ==
    /\ Len(deck) = Cardinality(cards)
    /\ {deck[n] : n \in 1..Len(deck)} = cards

DeckCards == {gameState.deck[n] : n \in 1..Len(gameState.deck)}

GameStatus(gs) ==
    IF ~gs.gameEnded THEN "Active"
    ELSE IF gs.stability <= 0 THEN "LostByStabilityZero"
    ELSE IF gs.tokens <= 0 THEN "LostByTokensZero"
    ELSE "WonByDeckExhaustion"

\* The status that a reason given to endGame stands for.
StatusOfReason(reason) ==
    CASE reason = "stability" -> "LostByStabilityZero"
      [] reason = "tokens"    -> "LostByTokensZero"
      [] reason = "win"       -> "WonByDeckExhaustion"
      [] OTHER                -> "Active"

\* The fields of gameState the round trip is about.
Ledger(gs) ==
    <<gs.tokens, gs.stability, gs.deck, gs.cardHistory, gs.pendingCard,
      GameStatus(gs)>>

C13_WriteThrough ==
    (pageLoaded /\ localStorage # Null) =>
        JSON_parse(localStorage[1]) = gameState

\* The history entry of the pending card: { ...card, ...cardData }.
PendingEntry ==
    [suit   |-> gameState.pendingCard[1].card.suit,
     value  |-> gameState.pendingCard[1].card.value,
     tokens |-> gameState.pendingCard[1].cardData.tokens,
     blocks |-> gameState.pendingCard[1].cardData.blocks]

FirstN(seq, n) == SubSeq(seq, 1, Min(n, Len(seq)))

\* C14: the history never has more than 10 entries; a confirm puts the
\* confirmed card first and keeps the 9 most recent of the entries before it,
\* in their order, so that after n confirms the history is the min(n, 10)
\* most recently confirmed cards, most recent first; and within a session
\* nothing but a confirm changes the history.
C14_HistoryCap ==
    /\ [](Len(gameState.cardHistory) <= 10)
    /\ [][Confirm =>
              /\ gameState'.cardHistory =
                     FirstN(<<PendingEntry>> \o gameState.cardHistory, 10)
              /\ Len(gameState'.cardHistory) =
                     Min(Len(gameState.cardHistory) + 1, 10)]_vars
    /\ [][(pageLoaded /\ pageLoaded' /\ ~Confirm) =>
              gameState'.cardHistory = gameState.cardHistory]_vars

\* C14 witness: at least 12 cards of the 52 were confirmed, and the history
\* holds 10.
C14_Witness ==
    /\ pageLoaded
    /\ Len(gameState.cardHistory) = 10
    /\ Len(gameState.deck) + Len(gameState.pendingCard) <= 40
    /\ Cardinality(HistoryCards) = 10

\* The engine at the start of a game with the whole deck: the configured
\* tokens and stability, the 52 identities once each in the deck, no pending
\* card, no history, status Active, the buttons enabled.
FreshFullDeckGame(gs) ==
    /\ gs.tokens = GAME_CONFIG.tokensInitial
    /\ gs.stability = GAME_CONFIG.stabilityInitial
    /\ Len(gs.deck) = 52
    /\ IsDeckOf(gs.deck, AllCardSet)
    /\ gs.pendingCard = Null
    /\ gs.cardHistory = <<>>
    /\ GameStatus(gs) = "Active"

\* C15: a new game that the player confirms clears the saved state and
\* restarts the script, whatever the state it is asked in, and the page that
\* loads next starts a fresh game with a newly shuffled deck; a declined new
\* game changes nothing.
C15_NewGame ==
    /\ [][newGame =>
              \/ UNCHANGED vars
              \/ /\ localStorage' = Null
                 /\ ~pageLoaded'
                 /\ alerts' = <<NewGameConfirm>>]_vars
    /\ [](alerts = <<NewGameConfirm>> => localStorage = Null)
    /\ [][(windowOnloadFullDeck /\ alerts = <<NewGameConfirm>>) =>
              /\ FreshFullDeckGame(gameState')
              /\ cardResult' = NoCardDrawn
              /\ ~buttonsDisabled'
              /\ localStorage' = Null]_vars

\* C15 witness: the game that a confirmed new game has started.
C15_Witness ==
    /\ pageLoaded
    /\ alerts = <<NewGameConfirm>>
    /\ FreshFullDeckGame(gameState)
    /\ localStorage = Null

\* A draw requested in Idle with an empty deck while reshuffle-on-empty is
\* enabled.
ReshuffleDraw ==
    /\ drawCardBeforeOnload \/ drawCardFullDeck
    /\ gameState.pendingCard = Null
    /\ Len(gameState.deck) = 0
    /\ GAME_CONFIG.reshuffle

C17_AdjustTokensFrame ==
    [][adjustTokens =>
           /\ gameState'.tokens - gameState.tokens \in AdjustAmounts
           /\ gameState' = [gameState EXCEPT !.tokens = gameState'.tokens]
           /\ alerts' = <<>>
           /\ cardResult' = cardResult
           /\ buttonsDisabled' = buttonsDisabled
           /\ localStorage' = saveGameState(gameState')]_vars

\* C17 witness: a card is pending, no card was confirmed yet, and the tokens
\* are no longer the initial ones: they were adjusted by hand, and the card
\* is still pending.
C17_Witness ==
    /\ pageLoaded
    /\ gameState.pendingCard # Null
    /\ gameState.cardHistory = <<>>
    /\ gameState.tokens # GAME_CONFIG.tokensInitial
    /\ cardResult = CardShown
    /\ localStorage = saveGameState(gameState)

\* C18: within a session the stability never increases, and it changes only
\* in the confirm of a card that pulls blocks: a draw, a manual token
\* adjustment and the confirm of a card with no block pull leave it as it is,
\* whatever the token delta of the card; a reload brings back the stability
\* that was saved, which is the stability of the game.
C18_StabilityOnlyByPulls ==
    /\ [][(pageLoaded /\ pageLoaded') =>
              /\ gameState'.stability <= gameState.stability
              /\ gameState'.stability # gameState.stability =>
                     /\ Confirm
                     /\ gameState.pendingCard[1].cardData.blocks > 0
                     /\ ~drawCard
                     /\ ~adjustTokens]_vars
    /\ [][(/\ pageLoaded
           /\ gameState.pendingCard # Null
           /\ gameState'.pendingCard = Null
           /\ gameState.pendingCard[1].cardData.blocks = 0
           /\ Confirm) =>
              /\ gameState'.stability = gameState.stability
              /\ gameState'.tokens =
                     gameState.tokens + gameState.pendingCard[1].cardData.tokens]_vars
    /\ []((pageLoaded /\ localStorage # Null) =>
              JSON_parse(localStorage[1]).stability = gameState.stability)

\* C18 witness: the last confirmed card changed the tokens and pulled no
\* block, and the stability is the initial one.
C18_Witness ==
    /\ pageLoaded
    /\ gameState.pendingCard = Null
    /\ gameState.cardHistory # <<>>
    /\ gameState.cardHistory[1].blocks = 0
    /\ gameState.cardHistory[1].tokens # 0
    /\ Len(gameState.cardHistory) = 1
    /\ gameState.stability = GAME_CONFIG.stabilityInitial

\* The catalog lacks one of the 52 cards, or one of its cards lacks one of
\* title, description, token delta and block count.
CatalogLacks(cards, fields) ==
    \E c \in AllCardSet :
        \/ cards = <<>>
        \/ c.suit \notin DOMAIN cards
        \/ c.value \notin DOMAIN cards[c.suit]
        \/ ~cards[c.suit][c.value].isDict
        \/ \E f \in fields : f \notin cards[c.suit][c.value].fields

\* C19: for every catalog that lacks a card or in which a card lacks its
\* title, description, token delta or block count, validate() returns errors
\* and build() raises ValidationError and writes no file.
C19_ValidationRejects ==
    (/\ builder.stage \in {"validated", "done"}
     /\ CatalogLacks(builder.cards, CardFields)) =>
        /\ builder.errors # <<>>
        /\ builder.stage = "done" =>
               /\ builder.raised = "ValidationError"
               /\ ~builder.written

\* C20: for every stability > 0 a game can have and every pair of thresholds
\* with danger > critical >= 0, the failure threshold of a block pull is 3
\* when stability <= critical, 2 when critical < stability <= danger, and 1
\* when stability > danger; the stability of the game is one of these values.
C20_FailureThresholdBands ==
    /\ GAME_CONFIG.danger > GAME_CONFIG.critical
    /\ GAME_CONFIG.critical >= 0
    /\ gameState.stability \in 0..GAME_CONFIG.stabilityInitial
    /\ \A stability \in 1..GAME_CONFIG.stabilityInitial :
           /\ stability <= GAME_CONFIG.critical
                  => failureThreshold(stability) = 3
           /\ (stability > GAME_CONFIG.critical /\ stability <= GAME_CONFIG.danger)
                  => failureThreshold(stability) = 2
           /\ stability > GAME_CONFIG.danger
                  => failureThreshold(stability) = 1

\* C20 witness: block pulls have brought the stability from above the danger
\* threshold into the critical band, where the next pull has threshold 3, in
\* a game whose danger band is not empty.
C20_Witness ==
    /\ pageLoaded
    /\ gameState.stability > 0
    /\ gameState.stability <= GAME_CONFIG.critical
    /\ GAME_CONFIG.danger > GAME_CONFIG.critical + 1
    /\ gameState.cardHistory # <<>>
    /\ failureThreshold(gameState.stability) = 3

\* C21: applied to the page of any reachable state, pullBlock changes nothing
\* when stability <= 0; otherwise it loses between 0 and stability blocks
\* (one trial per block: losing none and losing all are both possible), the
\* stability after it is the stability before minus the losses and is not
\* below 0, nothing else of the ledger, deck, history or pending card
\* changes, and the game is ended when no block is left.
C21_PullBlock ==
    LET before == gameState.stability
        after == {q.gs.stability : q \in pullBlock(Page)}
        forgotten(q) == [q EXCEPT !.calls = <<>>]
    IN  /\ before <= 0 => {forgotten(q) : q \in pullBlock(Page)} = {Page}
        /\ before > 0 =>
              /\ after \subseteq 0..before
              /\ {before - lost : lost \in LostCounts(before)} = after
              /\ LostCounts(before) \subseteq 0..before
              /\ {0, before} \subseteq LostCounts(before)
              /\ \A q \in pullBlock(Page) :
                    /\ [q.gs EXCEPT !.stability = before,
                                    !.gameEnded = gameState.gameEnded] = gameState
                    /\ q.gs.gameEnded = (gameState.gameEnded \/ q.gs.stability = 0)

\* C21 witness: pulls have lost some blocks and left others, and a card that
\* pulls a block is pending.
C21_Witness ==
    /\ pageLoaded
    /\ gameState.stability > 1
    /\ gameState.stability < GAME_CONFIG.stabilityInitial
    /\ gameState.pendingCard # Null
    /\ gameState.pendingCard[1].cardData.blocks > 0

\* The calls of pullBlock among the calls a handler has made, in order.
PullCalls(calls) == SelectSeq(calls, LAMBDA c : c.op = "pullBlock")

\* C22: confirming a card that asks for k block pulls calls pullBlock exactly
\* k times, one after the other; each call starts from the stability the
\* previous call left and takes its failure threshold from the band of that
\* stability, so that a pull which brings the stability from above the danger
\* or the critical threshold to a positive value at or below it raises the
\* threshold of the next pull of the same card.
C22_PullsInSequence ==
    (pageLoaded /\ gameState.pendingCard # Null) =>
        LET cardData == gameState.pendingCard[1].cardData
            thresholds == GAME_CONFIG
            band(s) == IF s <= thresholds.critical THEN 3
                       ELSE IF s <= thresholds.danger THEN 2
                       ELSE 1
        IN  \A q \in applyCardEffects(Page, cardData) :
               LET pulls == PullCalls(q.calls)
               IN  /\ Len(pulls) = cardData.blocks
                   /\ Len(pulls) > 0 => pulls[1].stability = gameState.stability
                   /\ \A i \in 1..Len(pulls) :
                         /\ pulls[i].threshold =
                               IF pulls[i].stability <= 0 THEN 0
                               ELSE band(pulls[i].stability)
                         /\ pulls[i].stability <= 0 => pulls[i].lost = 0
                   /\ \A i \in 1..(Len(pulls) - 1) :
                         LET left == pulls[i].stability - pulls[i].lost
                             next == pulls[i + 1]
                         IN  /\ next.stability = IF left < 0 THEN 0 ELSE left
                             /\ \A t \in {thresholds.danger, thresholds.critical} :
                                   (pulls[i].stability > t /\ next.stability <= t
                                        /\ next.stability > 0)
                                      => next.threshold > pulls[i].threshold

\* A card with two pulls is pending and its first pull can cross a threshold,
\* so that its second pull is made with a higher failure threshold.
C22_Witness ==
    /\ pageLoaded
    /\ gameState.pendingCard # Null
    /\ gameState.pendingCard[1].cardData.blocks = 2
    /\ \E q \in applyCardEffects(Page, gameState.pendingCard[1].cardData) :
          LET pulls == PullCalls(q.calls)
          IN  /\ Len(pulls) = 2
              /\ pulls[1].lost > 0
              /\ pulls[2].threshold > pulls[1].threshold

\* The positions in `calls` of the calls of one kind.
CallsOf(calls, op) == {i \in 1..Len(calls) : calls[i].op = op}

\* C23: within one confirm the token change comes first, then the block
\* pulls, then the end check: every pull and the end check find the tokens
\* with the card's change already booked, the end check follows the last pull,
\* and a pull that leaves no block is followed at once, before any further pull
\* and before the end check, by endGame('stability').
C23_EffectOrder ==
    (pageLoaded /\ gameState.pendingCard # Null) =>
        LET cardData == gameState.pendingCard[1].cardData
            booked == gameState.tokens + cardData.tokens
        IN  \A q \in applyCardEffects(Page, cardData) :
               LET calls == q.calls
                   paid == CallsOf(calls, "tokens")
                   pulls == CallsOf(calls, "pullBlock")
                   checks == CallsOf(calls, "checkGameEnd")
               IN  /\ paid = IF cardData.tokens # 0 THEN {1} ELSE {}
                   /\ \A i \in paid : calls[i].tokens = gameState.tokens
                   /\ q.gs.tokens = booked
                   /\ Cardinality(checks) = 1
                   /\ \A i \in pulls \cup checks : calls[i].tokens = booked
                   /\ \A i \in pulls : \A j \in checks : i < j
                   /\ \A i \in pulls :
                         (calls[i].stability > 0
                              /\ calls[i].stability - calls[i].lost <= 0)
                            => /\ i < Len(calls)
                               /\ calls[i + 1].op = "endGame"
                               /\ calls[i + 1].reason = "stability"
                               /\ calls[i + 1].stability = 0
                               /\ calls[i + 1].tokens = booked
                   /\ \A i \in checks :
                         calls[i].stability <= 0
                            => /\ Len(calls) = i + 1
                               /\ calls[i + 1].op = "endGame"
                               /\ calls[i + 1].reason = "stability"

\* A card that changes the tokens and pulls blocks is pending, and one of its
\* pulls can take the last block.
C23_Witness ==
    /\ pageLoaded
    /\ gameState.pendingCard # Null
    /\ gameState.pendingCard[1].cardData.tokens # 0
    /\ gameState.pendingCard[1].cardData.blocks > 0
    /\ gameState.stability > 0
    /\ \E q \in applyCardEffects(Page, gameState.pendingCard[1].cardData) :
          /\ q.gs.stability = 0
          /\ q.gs.tokens = gameState.tokens + gameState.pendingCard[1].cardData.tokens
          /\ \E i \in CallsOf(q.calls, "pullBlock") :
                q.calls[i].lost > 0 /\ q.calls[i + 1].op = "endGame"

\* C24: a confirm that finds a pending card puts that card, with its token
\* change and its block pulls, at the front of the history ahead of the nine
\* newest entries, adds its token change to the tokens, takes the stability to
\* a value its block pulls can leave, keeps the deck, and ends with no pending
\* card, whether or not the end check has ended the game.
C24_ConfirmEffects ==
    [][(gameState.pendingCard # Null /\ applyCurrentCard) =>
          LET card == gameState.pendingCard[1].card
              cardData == gameState.pendingCard[1].cardData
          IN  /\ gameState'.pendingCard = Null
              /\ Len(gameState'.cardHistory) >= 1
              /\ gameState'.cardHistory[1] =
                    [suit |-> card.suit, value |-> card.value,
                     tokens |-> cardData.tokens, blocks |-> cardData.blocks]
              /\ Tail(gameState'.cardHistory) =
                    FirstN(gameState.cardHistory, HistoryCap - 1)
              /\ gameState'.tokens = gameState.tokens + cardData.tokens
              /\ gameState'.stability \in
                    {q.gs.stability : q \in pullBlocks(Page, cardData.blocks)}
              /\ cardData.blocks = 0 => gameState'.stability = gameState.stability
              /\ gameState'.deck = gameState.deck
              /\ gameState'.gameEnded \in BOOLEAN]_vars

\* A confirm has just ended the game by taking the last block: its card heads
\* the history and no card is pending.
C24_Witness ==
    /\ pageLoaded
    /\ gameState.gameEnded
    /\ gameState.stability = 0
    /\ gameState.pendingCard = Null
    /\ Len(gameState.cardHistory) >= 2
    /\ gameState.cardHistory[1].blocks > 0
    /\ gameState.cardHistory[1].tokens # 0
    /\ alerts = <<>>

\* C25: a draw that is not refused takes the last card of the deck it draws
\* from (the deck as it stands, or the deck just reshuffled when it stood
\* empty), makes that card with its entry of CARD_DATA the pending card, leaves
\* the deck one card shorter than the deck it drew from, and changes neither
\* the tokens, the stability, the history nor the status.
C25_DrawFrame ==
    [][(alerts' \in {<<>>, <<Reshuffling>>}
            /\ (drawCardFullDeck \/ drawCardBeforeOnload)) =>
          LET drawn == gameState'.pendingCard[1].card
          IN  /\ gameState.pendingCard = Null
              /\ gameState'.pendingCard =
                    <<[card |-> drawn, cardData |-> CARD_DATA[drawn]]>>
              /\ Len(gameState.deck) > 0 =>
                    /\ drawn = gameState.deck[Len(gameState.deck)]
                    /\ gameState'.deck =
                          SubSeq(gameState.deck, 1, Len(gameState.deck) - 1)
                    /\ Len(gameState'.deck) = Len(gameState.deck) - 1
              /\ Len(gameState.deck) = 0 =>
                    /\ GAME_CONFIG.reshuffle
                    /\ Len(gameState'.deck) = 52 - 1
                    /\ IsDeckOf(gameState'.deck \o <<drawn>>, AllCardSet)
              /\ gameState'.tokens = gameState.tokens
              /\ gameState'.stability = gameState.stability
              /\ gameState'.cardHistory = gameState.cardHistory
              /\ gameState'.gameEnded = gameState.gameEnded
              /\ GameStatus(gameState') = GameStatus(gameState)]_vars

\* The third card of a deck has just been drawn, after two confirms.
C25_Witness ==
    /\ pageLoaded
    /\ alerts = <<>>
    /\ cardResult = CardShown
    /\ gameState.pendingCard # Null
    /\ Len(gameState.deck) = 52 - 3
    /\ Len(gameState.cardHistory) = 2

\* The identity of the pending card, when there is one.
PendingCards ==
    {gameState.pendingCard[i].card : i \in 1..Len(gameState.pendingCard)}

\* C26: on a loaded page no identity is twice in the deck and the pending
\* card is not in the deck; while the deck is never reshuffled, the deck, the
\* pending card and the confirmed cards are pairwise disjoint and together
\* are all the cards.
C26_DeckPartition ==
    pageLoaded =>
        /\ Cardinality(DeckCards) = Len(gameState.deck)
        /\ DeckCards \cap PendingCards = {}
        /\ ~GAME_CONFIG.reshuffle =>
              /\ DeckCards \cap HistoryCards = {}
              /\ PendingCards \cap HistoryCards = {}
              /\ Cardinality(HistoryCards) = Len(gameState.cardHistory)
              /\ DeckCards \cup PendingCards \cup HistoryCards = Cards

\* C27: in a block pull one trial is made per block, and a trial fails with
\* probability failureThreshold / 6: of the equally likely values of
\* Math.random(), the share that fails the trial is 1/6 in the safe band, 2/6
\* in the danger band and 3/6 in the critical band; and in the safe band a
\* pull can lose a block.
C27_TrialProbability ==
    (pageLoaded /\ gameState.stability > 0) =>
        LET threshold == failureThreshold(gameState.stability)
        IN  /\ FailureCount(threshold) * DieFaces = threshold * RandomGrid
            /\ \E lost \in LostCounts(gameState.stability) : lost > 0

\* C28: the share of the values of Math.random() that fails a trial, and with
\* it the expected loss of a pull at the stability of the page (one trial per
\* block), does not decrease from the threshold of the page's band to any
\* higher threshold, and a lower stability never has a lower threshold.
C28_RiskMonotone ==
    (pageLoaded /\ gameState.stability > 0) =>
        LET threshold == failureThreshold(gameState.stability)
        IN  /\ threshold \in 1..3
            /\ \A higher \in threshold..3 :
                  /\ FailureCount(threshold) <= FailureCount(higher)
                  /\ gameState.stability * FailureCount(threshold)
                        <= gameState.stability * FailureCount(higher)
            /\ \A lower \in 1..gameState.stability :
                  /\ failureThreshold(lower) >= threshold
                  /\ FailureCount(failureThreshold(lower)) >= FailureCount(threshold)
            /\ FailureCount(1) <= FailureCount(2)
            /\ FailureCount(2) <= FailureCount(3)

\* The stability of the page has come down into the critical band, where a
\* trial fails more often than in the safe band the game started in.
C28_Witness ==
    /\ pageLoaded
    /\ gameState.stability > 0
    /\ gameState.stability < GAME_CONFIG.stabilityInitial
    /\ failureThreshold(GAME_CONFIG.stabilityInitial) = 1
    /\ failureThreshold(gameState.stability) = 3
    /\ FailureCount(3) > FailureCount(1)

\* C29: window.onload runs once per page, before the page counts as loaded.
\* With a saved game it leaves gameState equal to the saved one, whose deck
\* and pending card replace the deck just shuffled; with none it leaves the
\* initial tokens and stability of the configuration, a deck of the 52
\* identities, no pending card, an empty history and a game not ended.
C29_SessionStart ==
    /\ [](pageLoaded => ~ENABLED windowOnloadFullDeck)
    /\ [][windowOnloadFullDeck =>
          /\ ~pageLoaded
          /\ pageLoaded'
          /\ localStorage # Null =>
                /\ gameState' = JSON_parse(localStorage[1])
                /\ gameState'.deck = JSON_parse(localStorage[1]).deck
                /\ gameState'.pendingCard = JSON_parse(localStorage[1]).pendingCard
                /\ localStorage' = localStorage
          /\ localStorage = Null =>
                /\ gameState'.tokens = GAME_CONFIG.tokensInitial
                /\ gameState'.stability = GAME_CONFIG.stabilityInitial
                /\ Len(gameState'.deck) = 52
                /\ IsDeckOf(gameState'.deck, AllCardSet)
                /\ gameState'.pendingCard = Null
                /\ gameState'.cardHistory = <<>>
                /\ ~gameState'.gameEnded
                /\ localStorage' = Null]_vars

\* The page has loaded the saved state of a game lost on stability: the game
\* is ended though endGame was not called on this page, and the deck is the
\* saved one, shorter than a fresh deck.
C29_Witness ==
    /\ pageLoaded
    /\ localStorage # Null
    /\ gameState = JSON_parse(localStorage[1])
    /\ endReason = "none"
    /\ gameState.gameEnded
    /\ gameState.stability = 0
    /\ Len(gameState.deck) \in 1..50
    /\ buttonsDisabled

\* C30: at most one autosave timer has yet to fire, and it is the one
\* saveTimeout holds; an edit of the journal cancels the timer of the edit
\* before it, sets a new one and saves nothing itself, so that after any
\* number of edits one save is due; when the timer fires it saves the journal
\* as the last edit left it, no timer remains, and gameState (tokens,
\* stability, deck, pending card, history, ended flag), the card display, the
\* buttons and the journal are as they were.
C30_AutosaveDebounced ==
    /\ [](Cardinality(timers) <= 1)
    /\ [](timers \subseteq {saveTimeout[i] : i \in 1..Len(saveTimeout)})
    /\ [][journalInput =>
             /\ Cardinality(timers') = 1
             /\ timers' = {saveTimeout'[1]}
             /\ journal' # journal
             /\ UNCHANGED <<gameState, localStorage, journalContent>>]_vars
    /\ [][saveTimeoutFires =>
             /\ timers # {}
             /\ timers' = {}
             /\ journalContent' = <<journal>>
             /\ localStorage' = saveGameState(gameState)
             /\ Ledger(gameState') = Ledger(gameState)
             /\ UNCHANGED <<gameState, journal, cardResult, buttonsDisabled,
                            endReason, alerts, pageLoaded>>]_vars

\* The journal was edited while a drawn card waited, after a confirm, and the
\* autosave has fired: no timer is left and the saved text is the journal.
C30_Witness ==
    /\ pageLoaded
    /\ timers = {}
    /\ saveTimeout # Null
    /\ journal = NumTexts
    /\ journalContent = <<journal>>
    /\ gameState.pendingCard # Null
    /\ Len(gameState.cardHistory) > 0
    /\ localStorage = saveGameState(gameState)

\* The ended flag of the saved game; FALSE when no game is saved.
SavedEnded(storage) == storage # Null /\ JSON_parse(storage[1]).gameEnded

\* C31: an ended game stays ended. No step but a new game or a reload of the
\* page clears gameEnded, and the reload only until window.onload has put the
\* saved game back; the saved game stays ended until a new game clears it;
\* and the handlers themselves, run on an ended game, leave it ended: a token
\* adjustment by any amount, the effects of any card, the clearing of the
\* pending card, the pop of a draw and the autosave, which writes no field of
\* gameState.
C31_EndedStaysEnded ==
    /\ [](gameState.gameEnded =>
             /\ \A amount \in AdjustAmounts :
                   addTokens(gameState, amount).gameEnded
             /\ \A card \in DOMAIN CARD_DATA :
                   \A q \in applyCardEffects(Page, CARD_DATA[card]) :
                       q.gs.gameEnded /\ clearPending(q.gs).gameEnded
             /\ SavedEnded(localStorage)
             /\ SavedEnded(saveGameState(gameState)))
    /\ [][gameState.gameEnded =>
             \/ gameState'.gameEnded
             \/ newGame
             \/ reloadPage]_vars
    /\ [][SavedEnded(localStorage) =>
             \/ SavedEnded(localStorage')
             \/ newGame]_vars
    /\ [][(SavedEnded(localStorage) /\ windowOnload) =>
             gameState'.gameEnded]_vars
    /\ [][(gameState.gameEnded /\ (saveTimeoutFires \/ journalInput)) =>
             gameState'.gameEnded /\ SavedEnded(localStorage')]_vars

\* An ended game whose journal was edited and saved by the timer, on a page
\* that has loaded it back.
C31_Witness ==
    /\ pageLoaded
    /\ gameState.gameEnded
    /\ endReason = "none"
    /\ buttonsDisabled
    /\ timers = {}
    /\ saveTimeout # Null
    /\ journal # EmptyText
    /\ journalContent = <<journal>>
    /\ SavedEnded(localStorage)

\* C32: on a loaded page, whenever the game is not ended and no card is
\* pending the deck is not empty, so that neither test of drawCard on the
\* empty deck applies there: the draw is not refused for an empty deck and no
\* reshuffle is called for; and when the deck is empty and no card is
\* pending, the game is ended.
C32_IdleDeckNonEmpty ==
    pageLoaded =>
        /\ (~gameState.gameEnded /\ gameState.pendingCard = Null) =>
              /\ Len(gameState.deck) > 0
              /\ ~DeckEmptyBlocksDraw(gameState)
              /\ ~(Len(gameState.deck) = 0 /\ GAME_CONFIG.reshuffle)
        /\ (Len(gameState.deck) = 0 /\ gameState.pendingCard = Null) =>
              gameState.gameEnded

\* The last card but one has been confirmed and the game goes on: one card
\* is left in the deck and none is pending.
C32_Witness ==
    /\ pageLoaded
    /\ ~gameState.gameEnded
    /\ gameState.pendingCard = Null
    /\ Len(gameState.deck) = 1
    /\ Len(gameState.cardHistory) = NumCards - 1

\* The draws and confirms a game can still take: two for each card of the
\* deck, one for the pending card.
StepsLeft(gs) == 2 * Len(gs.deck) + Len(gs.pendingCard)

\* C33: a fresh game has 52 cards and so 104 steps left; every successful
\* draw and every confirm of a pending card takes exactly one of them,
\* whatever the card table and the trials give; and a game on a loaded page
\* with none left is ended. A run of successful draws and
\* confirms from a fresh game is therefore ended at its 52nd confirm at the
\* latest.
C33_EndsWithinDeck ==
    /\ []((pageLoaded /\ StepsLeft(gameState) = 0) => gameState.gameEnded)
    /\ [][(windowOnloadFullDeck /\ localStorage = Null) =>
             /\ StepsLeft(gameState') = 2 * 52
             /\ ~gameState'.gameEnded]_vars
    /\ [][(pageLoaded /\ DrawSucceeded) =>
             /\ StepsLeft(gameState) > 0
             /\ StepsLeft(gameState') = StepsLeft(gameState) - 1]_vars
    /\ [][(gameState.pendingCard # Null /\ applyCurrentCard) =>
             /\ StepsLeft(gameState') = StepsLeft(gameState) - 1
             /\ StepsLeft(gameState') = 0 => gameState'.gameEnded]_vars

\* The 52nd confirm of a game has just ended it with a win.
C33_Witness ==
    /\ pageLoaded
    /\ gameState.gameEnded
    /\ endReason = "win"
    /\ StepsLeft(gameState) = 0
    /\ Len(gameState.cardHistory) = HistoryCap
    /\ gameState.tokens > 0
    /\ gameState.stability > 0

\* C34: on the page where a confirm has ended the game, the card display
\* shows the game-over panel of the reason endGame was called with.
C34_TerminalMessageShown ==
    (pageLoaded /\ gameState.gameEnded /\ endReason # "none") =>
        cardResult = GameOverPanel(endReason)

====
